---- MODULE Spec2Model ----
(***************************************************************************)
(* A model of the release / note notifier: api/a1_check_releace.py (the    *)
(* shared sitemap source), api/a2_check_note.py and api/a3_check_x.py (the *)
(* per-account feed sources), spreadsheet2json.py (the identifier sheet)   *)
(* and api/b_send_slack.py (run_notification, build_response).             *)
(*                                                                         *)
(* Text is a sequence of one-character strings, a dict is a function, a    *)
(* list is a sequence.  Time is counted in ticks; a datetime is a record   *)
(* [wall, off, aware]: the wall-clock reading, its UTC offset (both in     *)
(* ticks) and whether it carries a tzinfo.                                 *)
(***************************************************************************)
EXTENDS Integers, Sequences, FiniteSets, TLC

\* ------------------------------------------------------------------ bounds

\* Ticks of the model's clock in one hour (timedelta(hours=...)).
TicksPerHour == 2

\* The clock reading when the run starts, and how far the clock may advance
\* while the run is under way.
Clock0 == 20
MaxTicks == 1

\* Largest window_hours a caller passes.
MaxWindowHours == 1

\* Entries in the sitemap document, items in one account's feed, lines in an
\* identifier file.
MaxSitemapEntries == 2
MaxFeedItems == 1
MaxIdLines == 2

\* Digits in a company ID, and entries in a document handed to a parser
\* that is called on its own.
MaxIdLen == 4
MaxParseEntries == 2

\* ---------------------------------------------------------------- universes

\* Python's None, among texts: it is tested for truth only (`x or y`, `if x`).
None == <<"None">>

\* Company IDs as they are written in links and in id_list.txt.
RawIds == {<<"7">>, <<"0", "7">>, <<"8">>}

\* Lines of id_list.txt / note_id_list.txt, already strip()ped.
CommentLine == <<"#", "x">>
NoteIdLines == {<<"a">>, <<"b">>}

\* UTC offsets that publish times carry: UTC and +09:00.
Jst == 9 * TicksPerHour

Stamp(t, off) == [wall |-> t + off, off |-> off, aware |-> TRUE]

\* A datetime without tzinfo: astimezone() reads it in the host's zone, which
\* is UTC here.
Naive(t) == [wall |-> t, off |-> 0, aware |-> FALSE]

\* Sequences over S of length at most n.
RECURSIVE SeqsUpTo(_, _)
SeqsUpTo(S, n) ==
    IF n = 0 THEN {<<>>}
    ELSE LET shorter == SeqsUpTo(S, n - 1)
         IN  shorter \cup {Append(s, x) : s \in {q \in shorter : Len(q) = n - 1}, x \in S}

\* ------------------------------------------------------------ text helpers

\* str.lstrip("0")
RECURSIVE LStripZeros(_)
LStripZeros(s) ==
    IF s # <<>> /\ Head(s) = "0" THEN LStripZeros(Tail(s)) ELSE s

\* A strip that leaves nothing of an ID of zeros only.
StripToEmpty(s) == LStripZeros(s)

\* x.lstrip("0") or "0"
NormalizeId(s) ==
    IF LStripZeros(s) = <<>> THEN <<"0">> ELSE LStripZeros(s)

\* line.startswith("#")
StartsWithHash(line) == line # <<>> /\ Head(line) = "#"

\* ------------------------------------------------------------ time helpers

\* datetime.astimezone(timezone.utc): the instant, in ticks of UTC.
AsUtc(dt) == dt.wall - dt.off

\* A two-digit, zero-padded field of isoformat().
TwoDigits(n) == <<(n \div 10) % 10, n % 10>>

\* datetime.isoformat() of a UTC datetime: fixed-width, zero-padded fields,
\* most significant first, then the "+00:00" suffix.
IsoFormat(t) == TwoDigits(t \div TicksPerHour) \o TwoDigits((t % TicksPerHour) * (60 \div TicksPerHour))

\* The instant an isoformat() text denotes.
IsoInstant(iso) == (iso[1] * 10 + iso[2]) * TicksPerHour + ((iso[3] * 10 + iso[4]) \div (60 \div TicksPerHour))

\* Python's str < str: lexicographic, a proper prefix is smaller.
RECURSIVE StrLess(_, _)
StrLess(a, b) ==
    IF b = <<>> THEN FALSE
    ELSE IF a = <<>> THEN TRUE
    ELSE IF Head(a) # Head(b) THEN Head(a) < Head(b)
    ELSE StrLess(Tail(a), Tail(b))

\* ------------------------------------------------------------------- URLs

\* https://prtimes.jp/main/html/rd/p/<rel>.<cid>.html
ReleaseUrl(rel, cid) == [site |-> "prtimes.jp", owner |-> cid, n |-> rel]

\* https://note.com/<acct>/n/<n>
NoteUrl(acct, k) == [site |-> "note.com", owner |-> acct, n |-> k]

\* ------------------------------------------------- a1_check_releace.py

\* load_prtimes_ids: the lines of id_list.txt that are neither blank nor
\* comments, each with its leading zeros stripped.
RECURSIVE load_prtimes_ids(_)
load_prtimes_ids(lines) ==
    IF lines = <<>> THEN <<>>
    ELSE IF Head(lines) = <<>> \/ StartsWithHash(Head(lines))
         THEN load_prtimes_ids(Tail(lines))
         ELSE <<NormalizeId(Head(lines))>> \o load_prtimes_ids(Tail(lines))

\* parse_sitemap: one release per <url> entry that has a link matching
\* /p/<digits>.<digits>.html and a publication date fromisoformat() accepts.
RECURSIVE parse_sitemap(_)
parse_sitemap(entries) ==
    IF entries = <<>> THEN <<>>
    ELSE LET e == Head(entries)
             rest == parse_sitemap(Tail(entries))
         IN  IF e.loc.kind # "release" \/ e.pub.kind # "iso" THEN rest
             ELSE <<[company_id |-> NormalizeId(e.loc.url.owner),
                     url |-> e.loc.url,
                     title |-> e.title,
                     published_at |-> e.pub.dt]>> \o rest

\* A window that leaves out the item published exactly at its start.
BeforeWindowExclusive(pub_utc, window_start) == pub_utc <= window_start

\* pub_dt_utc < window_start
BeforeWindow(pub_utc, window_start) == pub_utc < window_start

\* now - timedelta(hours=window_hours)
WindowStart(now, window_hours) == now - window_hours * TicksPerHour

\* A descending sort that puts an item before the items of equal key, as
\* sorting ascending and reversing does.
RECURSIVE InsertDescTiesFirst(_, _)
InsertDescTiesFirst(sorted, x) ==
    IF sorted = <<>> THEN <<x>>
    ELSE IF ~StrLess(x.published_at, Head(sorted).published_at)
         THEN <<x>> \o sorted
         ELSE <<Head(sorted)>> \o InsertDescTiesFirst(Tail(sorted), x)

\* list.sort(key=published_at, reverse=True) is stable: an item goes behind
\* every item whose key is not smaller than its own.
RECURSIVE InsertDesc(_, _)
InsertDesc(sorted, x) ==
    IF sorted = <<>> THEN <<x>>
    ELSE IF StrLess(Head(sorted).published_at, x.published_at)
         THEN <<x>> \o sorted
         ELSE <<Head(sorted)>> \o InsertDesc(Tail(sorted), x)

RECURSIVE SortDesc(_)
SortDesc(items) ==
    IF items = <<>> THEN <<>>
    ELSE InsertDesc(SortDesc(SubSeq(items, 1, Len(items) - 1)), items[Len(items)])

\* The loop of filter_recent_releases, before the sort.
RECURSIVE KeepReleases(_, _, _)
KeepReleases(releases, target_set, window_start) ==
    IF releases = <<>> THEN <<>>
    ELSE LET r == Head(releases)
             pub_dt_utc == AsUtc(r.published_at)
             rest == KeepReleases(Tail(releases), target_set, window_start)
         IN  IF r.company_id \notin target_set THEN rest
             ELSE IF BeforeWindow(pub_dt_utc, window_start) THEN rest
             ELSE <<[company_id |-> r.company_id,
                     url |-> r.url,
                     title |-> r.title,
                     published_at |-> IsoFormat(pub_dt_utc)]>> \o rest

\* A filter_recent_releases that applies the window only.
filter_recent_releases_any(releases, target_ids, window_hours, now) ==
    SortDesc(KeepReleases(releases,
                          {releases[i].company_id : i \in DOMAIN releases},
                          WindowStart(now, window_hours)))

\* filter_recent_releases, given the clock reading it takes.
filter_recent_releases(releases, target_ids, window_hours, now) ==
    SortDesc(KeepReleases(releases,
                          {target_ids[i] : i \in DOMAIN target_ids},
                          WindowStart(now, window_hours)))

\* ---------------------------------------- a2_check_note.py, a3_check_x.py

\* load_note_ids: the lines of note_id_list.txt that are neither blank nor
\* comments, as they are.
RECURSIVE load_note_ids(_)
load_note_ids(lines) ==
    IF lines = <<>> THEN <<>>
    ELSE IF Head(lines) = <<>> \/ StartsWithHash(Head(lines))
         THEN load_note_ids(Tail(lines))
         ELSE <<Head(lines)>> \o load_note_ids(Tail(lines))

\* The <item> loop of parse_rss.
RECURSIVE ParseItems(_, _)
ParseItems(items, note_id) ==
    IF items = <<>> THEN <<>>
    ELSE LET it == Head(items)
             rest == ParseItems(Tail(items), note_id)
         IN  IF it.link.kind # "link" \/ it.pub.kind # "date" THEN rest
             ELSE <<[note_id |-> note_id,
                     url |-> it.link.url,
                     title |-> it.title,
                     published_at |-> IF it.pub.dt.aware THEN it.pub.dt
                                      ELSE [wall |-> it.pub.dt.wall, off |-> 0,
                                            aware |-> TRUE]]>> \o rest

\* parse_rss: a document that does not parse, or has no channel, yields [].
parse_rss(xml, note_id) ==
    IF xml.kind # "rss" THEN <<>> ELSE ParseItems(xml.items, note_id)

\* The loop of filter_recent, before the sort.
RECURSIVE KeepRecent(_, _)
KeepRecent(articles, window_start) ==
    IF articles = <<>> THEN <<>>
    ELSE LET a == Head(articles)
             pub_dt_utc == AsUtc(a.published_at)
             rest == KeepRecent(Tail(articles), window_start)
         IN  IF BeforeWindow(pub_dt_utc, window_start) THEN rest
             ELSE <<[note_id |-> a.note_id,
                     url |-> a.url,
                     title |-> a.title,
                     published_at |-> IsoFormat(pub_dt_utc)]>> \o rest

\* filter_recent, given the clock reading it takes.
filter_recent(articles, window_hours, now) ==
    SortDesc(KeepRecent(articles, WindowStart(now, window_hours)))

\* ------------------------------------------------------ spreadsheet2json.py

\* The word a sheet cell holds when the account has no such ID.
Nashi == "nashi"

\* _is_missing: blank, or starting with the "none" word.
is_missing(value) == value = <<>> \/ Head(value) = Nashi

\* _normalize_note_id: the first path segment of a note.com URL, else the raw
\* value; without its leading "@"s.
RECURSIVE LStripAt(_)
LStripAt(s) == IF s # <<>> /\ Head(s) = "@" THEN LStripAt(Tail(s)) ELSE s

RECURSIVE FirstSegment(_)
FirstSegment(path) ==
    IF path = <<>> \/ Head(path) = "/" THEN <<>>
    ELSE <<Head(path)>> \o FirstSegment(Tail(path))

normalize_note_id(value) ==
    IF value = <<>> THEN <<>>
    ELSE IF Head(value) = "https://note.com/"
         THEN LStripAt(FirstSegment(Tail(value)))
         ELSE LStripAt(value)

\* _dedupe_preserve_order
RECURSIVE dedupe_preserve_order(_)
dedupe_preserve_order(values) ==
    IF values = <<>> THEN <<>>
    ELSE LET front == SubSeq(values, 1, Len(values) - 1)
             last == values[Len(values)]
             unique == dedupe_preserve_order(front)
         IN  IF \E i \in DOMAIN front : front[i] = last THEN unique
             ELSE Append(unique, last)

\* The three append loops of parse_ids.
RECURSIVE PrtimesColumn(_)
PrtimesColumn(rows) ==
    IF rows = <<>> THEN <<>>
    ELSE IF is_missing(Head(rows).prtimes_id) THEN PrtimesColumn(Tail(rows))
         ELSE <<Head(rows).prtimes_id>> \o PrtimesColumn(Tail(rows))

RECURSIVE NoteColumn(_)
NoteColumn(rows) ==
    IF rows = <<>> THEN <<>>
    ELSE IF is_missing(Head(rows).note_id)
            \/ normalize_note_id(Head(rows).note_id) = <<>>
         THEN NoteColumn(Tail(rows))
         ELSE <<normalize_note_id(Head(rows).note_id)>> \o NoteColumn(Tail(rows))

RECURSIVE XColumn(_)
XColumn(rows) ==
    IF rows = <<>> THEN <<>>
    ELSE IF is_missing(Head(rows).x_id) THEN XColumn(Tail(rows))
         ELSE <<Head(rows).x_id>> \o XColumn(Tail(rows))

\* parse_ids: the dict load_spreadsheet_data returns.
parse_ids(rows) ==
    [prtimes_id |-> dedupe_preserve_order(PrtimesColumn(rows)),
     note_id |-> dedupe_preserve_order(NoteColumn(rows)),
     x_id |-> dedupe_preserve_order(XColumn(rows))]

\* ---------------------------------------------------------- b_send_slack.py

\* dict.get(key)
Get(dict, key) == IF key \in DOMAIN dict THEN dict[key] ELSE None

EmptyDict == [k \in {} |-> None]

\* dict[key] = value
Put(dict, key, value) ==
    [k \in DOMAIN dict \cup {key} |-> IF k = key THEN value ELSE dict[k]]

\* The loop of _build_name_index over by_name.items(), one table at a time;
\* by_name is a sequence of [name, ids] in the dict's order.
RECURSIVE PrById(_)
PrById(by_name) ==
    IF by_name = <<>> THEN EmptyDict
    ELSE LET front == PrById(SubSeq(by_name, 1, Len(by_name) - 1))
             e == by_name[Len(by_name)]
         IN  IF e.ids.prtimes_id = <<>> THEN front
             ELSE Put(front, NormalizeId(e.ids.prtimes_id), e.name)

RECURSIVE NoteById(_)
NoteById(by_name) ==
    IF by_name = <<>> THEN EmptyDict
    ELSE LET front == NoteById(SubSeq(by_name, 1, Len(by_name) - 1))
             e == by_name[Len(by_name)]
         IN  IF e.ids.note_id = <<>> THEN front
             ELSE Put(front, e.ids.note_id, e.name)

RECURSIVE XById(_)
XById(by_name) ==
    IF by_name = <<>> THEN EmptyDict
    ELSE LET front == XById(SubSeq(by_name, 1, Len(by_name) - 1))
             e == by_name[Len(by_name)]
         IN  IF e.ids.x_id = <<>> THEN front
             ELSE Put(front, e.ids.x_id, e.name)

\* _build_name_index: the tables are filled from sheet["by_name"] and stay
\* empty when the sheet has no such key.
build_name_index(sheet) ==
    IF "by_name" \notin DOMAIN sheet
    THEN [pr |-> EmptyDict, note |-> EmptyDict, x |-> EmptyDict]
    ELSE [pr |-> PrById(sheet.by_name),
          note |-> NoteById(sheet.by_name),
          x |-> XById(sheet.by_name)]

\* _source_label
source_label(url) ==
    IF url.site = "note.com" THEN "note"
    ELSE IF url.site = "prtimes.jp" THEN "PR TIMES"
    ELSE "update"

\* label_text of send_with_preview: "<label> - <name>" if name else "<label>".
label_text(url, name) ==
    IF name # None THEN <<source_label(url), " - ", name>>
    ELSE <<source_label(url)>>

\* The message send_with_preview builds from the preview it fetched.
PreviewMessage(url, name, meta) ==
    [label_text |-> label_text(url, name),
     url |-> url,
     title |-> IF Get(meta, "title") \notin {None, <<>>} THEN meta.title ELSE <<"url">>,
     description |-> IF Get(meta, "description") \notin {None, <<>>}
                     THEN meta.description ELSE <<>>,
     image |-> IF Get(meta, "image") \notin {None, <<>>} THEN meta.image ELSE <<>>]

\* The status build_response gives an exception of run_notification.
StatusOf(exc_type) == IF exc_type = "HTTPError" THEN 502 ELSE 500

\* ------------------------------------------------------ what a run can meet

\* The entry points: main() of a1_check_releace.py, of a2_check_note.py and
\* of a3_check_x.py, and build_response() of b_send_slack.py.
CheckEntries == {"check_releases", "check_notes", "check_x"}
RunEntry == "build_response"

\* How many entries a sitemap document has, and how many items a feed has:
\* at most one in a whole run, more when one source is checked alone.
RunDocSizes == {0, 1}
SitemapSizes(e) == IF e = RunEntry THEN RunDocSizes ELSE 0..MaxSitemapEntries
FeedSizes(e) == IF e = RunEntry THEN RunDocSizes ELSE 0..MaxFeedItems

\* Publish instants: one before every window, and the two latest; when one
\* source is checked alone, also the start of the widest window.
Oldest == Clock0 - MaxWindowHours * TicksPerHour - 1

Instants(e) ==
    IF e = RunEntry
    THEN {Oldest, Clock0 - 1, Clock0}
    ELSE {Oldest, Oldest + 1, Clock0 - 1, Clock0}

\* UTC offsets of the sitemap's publication dates: UTC or +09:00 when the
\* sitemap is checked alone, +09:00 in a whole run.
Offsets(e) == IF e = RunEntry THEN {Jst} ELSE {0, Jst}

\* Lines of id_list.txt: in a whole run the file names company 7 only.
PrIdLines(e) ==
    IF e = RunEntry THEN {<<"0", "7">>, CommentLine}
    ELSE RawIds \cup {CommentLine}

\* The sitemap documents: the i-th entry links release i of some company; all
\* publication dates of one document carry the same UTC offset.
SitemapDocs(e) ==
    UNION {
        {[i \in 1..n |->
            [loc |-> [kind |-> "release", url |-> ReleaseUrl(i, cids[i])],
             title |-> <<"t">>,
             pub |-> [kind |-> "iso", dt |-> Stamp(ts[i], off)]]] :
         cids \in [1..n -> RawIds], ts \in [1..n -> Instants(e)], off \in Offsets(e)}
        : n \in SitemapSizes(e)}

\* The feed documents of an account: the i-th item links the account's i-th
\* article and is dated in +09:00; or a document that is no RSS.
Malformed == [kind |-> "malformed", items |-> <<>>]

FeedDocs(e, acct) ==
    {Malformed} \cup
    UNION {
        {[kind |-> "rss",
          items |-> [i \in 1..n |->
            [link |-> [kind |-> "link", url |-> NoteUrl(acct, i)],
             title |-> <<"t">>,
             pub |-> [kind |-> "date", dt |-> Stamp(ts[i], Jst)]]]] :
         ts \in [1..n -> Instants(e)]}
        : n \in FeedSizes(e)}

\* The identifier sheet: Acme has every ID, Bolt has no PR TIMES ID and gives
\* its note account as a URL.
SheetRows ==
    <<[name |-> <<"Acme">>, prtimes_id |-> <<"0", "7">>,
       note_id |-> <<"@", "a">>, x_id |-> <<"a">>],
      [name |-> <<"Bolt">>, prtimes_id |-> <<Nashi>>,
       note_id |-> <<"https://note.com/", "b", "/", "n">>, x_id |-> <<"b">>],
      [name |-> <<"Acme2">>, prtimes_id |-> <<>>,
       note_id |-> <<>>, x_id |-> <<"a">>]>>

Sheets == {SheetRows, SubSeq(SheetRows, 1, 1), <<>>}

\* The pages previews are fetched from.
Pages == {[title |-> <<"T">>, description |-> <<"D">>, image |-> <<"I">>]}

\* fetch_preview's result when the fetch fails.
NoPreview == [title |-> <<>>, description |-> <<>>]

\* A payload before its check has run.
NoData == [checked_at |-> <<>>, window_hours |-> 0, target_ids |-> <<>>,
           count |-> 0, items |-> <<>>]

NoSummary == [pr_count |-> 0, note_count |-> 0, messages_sent |-> 0,
              pr_ids |-> <<>>, note_ids |-> <<>>]

NoExc == [type |-> "none", origin |-> "none"]

\* --------------------------------- what a function called on its own is given

\* The functions that turn raw input into the pipeline's values.
ParseEntries == {"load_prtimes_ids", "parse_sitemap", "parse_rss",
                 "build_name_index"}

\* Company IDs as digit strings: with and without leading zeros, all zeros.
DigitStrings == SeqsUpTo({"0", "2", "4", "7"}, MaxIdLen) \ {<<>>}

\* The <loc> of a sitemap entry: a release link, a link that is no release,
\* or none.
SitemapLocs ==
    {[kind |-> "release", url |-> ReleaseUrl(1, <<"7">>)],
     [kind |-> "other", url |-> [site |-> "prtimes.jp", owner |-> <<>>, n |-> 0]],
     [kind |-> "missing", url |-> [site |-> "", owner |-> <<>>, n |-> 0]]}

\* A publish time as a parser reads it: with an offset, without one, a text
\* that is no date, or none.
PubTimes(kind) ==
    {[kind |-> kind, dt |-> Stamp(Clock0, Jst)],
     [kind |-> kind, dt |-> Stamp(Clock0, 0)],
     [kind |-> kind, dt |-> Naive(Clock0)],
     [kind |-> "bad", dt |-> Naive(0)],
     [kind |-> "missing", dt |-> Naive(0)]}

\* Sitemap documents with entries of every kind, and the documents of one
\* release whose link carries a given company ID.
EntryDocs ==
    SeqsUpTo({[loc |-> l, title |-> <<"t">>, pub |-> p] :
                 l \in SitemapLocs, p \in PubTimes("iso")},
             MaxParseEntries)

IdDocs ==
    {<<[loc |-> [kind |-> "release", url |-> ReleaseUrl(1, x)],
        title |-> <<"t">>,
        pub |-> [kind |-> "iso", dt |-> Stamp(Clock0, Jst)]]>> :
     x \in DigitStrings}

\* Feed documents with items of every kind, a document without a channel and
\* one that is no XML.
NoChannel == [kind |-> "nochannel", items |-> <<>>]

ItemDocs ==
    {Malformed, NoChannel} \cup
    {[kind |-> "rss", items |-> items] :
        items \in SeqsUpTo(
            {[link |-> l, title |-> <<"t">>, pub |-> p] :
                l \in {[kind |-> "link", url |-> NoteUrl(<<"a">>, 1)],
                       [kind |-> "missing",
                        url |-> [site |-> "", owner |-> <<>>, n |-> 0]]},
                p \in PubTimes("date")},
            MaxParseEntries)}

\* Sheet data with a by_name table of one account.
NamedSheets ==
    {[by_name |-> <<[name |-> <<"Acme">>,
                     ids |-> [prtimes_id |-> x, note_id |-> <<"a">>,
                              x_id |-> <<>>]]>>] :
     x \in DigitStrings}

ArgsOf(e) ==
    IF e = "load_prtimes_ids" THEN {<<x>> : x \in DigitStrings}
    ELSE IF e = "parse_sitemap" THEN EntryDocs \cup IdDocs
    ELSE IF e = "parse_rss" THEN ItemDocs
    ELSE NamedSheets

\* ------------------------------------------------------------------ state

VARIABLES
    entry,          \* the entry point that was invoked
    pc,             \* where the invocation stands
    clock,          \* what datetime.now(timezone.utc) returns, in ticks
    webhook,        \* whether SLACK_WEBHOOK_URL is set
    window_hours,   \* the window_hours argument
    fetched,        \* the requests made so far: [src, ok]
    sheet_rows,     \* the rows of the identifier sheet as it was fetched
    name_index,     \* run_notification: name_index
    ids,            \* check_releases: ids
    releases,       \* check_releases: releases
    note_ids,       \* check_notes: note_ids (check_x: x_ids)
    idx,            \* check_notes: position of the for loop in note_ids
    rss_log,        \* check_notes: how each fetch_rss call ended
    all_articles,   \* check_notes: all_articles
    filter_now,     \* the filter functions: now
    recent,         \* check_releases, check_notes: recent
    pr_data,        \* run_notification: pr_data
    note_data,      \* run_notification: note_data
    pr_entries,     \* run_notification: pr_entries
    note_entries,   \* run_notification: note_entries
    posted,         \* the messages POSTed to the webhook, in order
    exc,            \* the exception that ended the invocation
    status,         \* build_response: statusCode (0 while it is running)
    summary,        \* run_notification: summary
    arg             \* the argument of a function that is called on its own

vars == <<entry, pc, clock, webhook, window_hours, fetched, sheet_rows,
          name_index, ids, releases, note_ids, idx, rss_log, all_articles,
          filter_now, recent, pr_data, note_data, pr_entries, note_entries,
          posted, exc, status, summary, arg>>

sitemap_locals == <<ids, releases>>
feed_locals == <<note_ids, idx, rss_log, all_articles>>
filter_locals == <<filter_now, recent>>
run_locals == <<sheet_rows, name_index, pr_data, note_data, pr_entries,
                note_entries, posted, summary>>
env == <<entry, webhook, window_hours, arg>>

InitFor(entries) ==
    /\ entry \in entries
    /\ pc = IF entry = RunEntry THEN "start"
            ELSE IF entry = "check_releases" THEN "pr_load"
            ELSE IF entry \in ParseEntries THEN "call"
            ELSE "note_load"
    /\ clock = Clock0
    /\ webhook \in (IF entry = RunEntry THEN BOOLEAN ELSE {FALSE})
    /\ window_hours \in 1..MaxWindowHours
    /\ fetched = {}
    /\ sheet_rows = <<>>
    /\ name_index = [pr |-> EmptyDict, note |-> EmptyDict, x |-> EmptyDict]
    /\ ids = <<>>
    /\ releases = <<>>
    /\ note_ids = <<>>
    /\ idx = 0
    /\ rss_log = <<>>
    /\ all_articles = <<>>
    /\ filter_now = 0
    /\ recent = <<>>
    /\ pr_data = NoData
    /\ note_data = NoData
    /\ pr_entries = <<>>
    /\ note_entries = <<>>
    /\ posted = <<>>
    /\ exc = NoExc
    /\ status = 0
    /\ summary = NoSummary
    /\ arg \in (IF entry \in ParseEntries THEN ArgsOf(entry) ELSE {<<>>})

\* A request to a remote source, and whether it was answered.
Fetch(src, ok) == fetched' = fetched \cup {[src |-> src, ok |-> ok]}

\* An exception leaves the invocation: build_response turns it into a status,
\* main() of a checker has no handler.
Raise(type, origin) ==
    /\ exc' = [type |-> type, origin |-> origin]
    /\ status' = IF entry = RunEntry THEN StatusOf(type) ELSE status
    /\ pc' = "done"

\* ----------------------------------------------------------------- clock

\* Time passes.  The clock is read by the two filters and by the two lines
\* that set checked_at, so an advance shows only just before one of them.
FeedLoopOver == pc = "note_fetch" /\ idx > Len(note_ids)

Tick ==
    /\ pc \in {"pr_filter", "pr_return", "note_return"} \/ FeedLoopOver
    /\ clock < Clock0 + MaxTicks
    /\ clock' = clock + 1
    /\ UNCHANGED <<env, pc, fetched, sitemap_locals, feed_locals, filter_locals,
                   run_locals, exc, status>>

\* ------------------------------------------------------- check_releases

\* ids = load_prtimes_ids()
LoadPrtimesIds ==
    /\ pc = "pr_load"
    /\ \E lines \in SeqsUpTo(PrIdLines(entry), MaxIdLines) :
           ids' = load_prtimes_ids(lines)
    /\ pc' = "pr_fetch"
    /\ UNCHANGED <<env, clock, fetched, releases, feed_locals, filter_locals,
                   run_locals, exc, status>>

\* xml_bytes = fetch_sitemap(); releases = parse_sitemap(xml_bytes)
\* raise_for_status, a network error and ET.fromstring's ParseError all leave
\* check_releases.
FetchSitemap ==
    /\ pc = "pr_fetch"
    /\ \/ /\ Fetch("sitemap", TRUE)
          /\ \E doc \in SitemapDocs(entry) : releases' = parse_sitemap(doc)
          /\ pc' = "pr_filter"
          /\ UNCHANGED <<exc, status>>
       \/ /\ Fetch("sitemap", TRUE)
          /\ Raise("ParseError", "sitemap")
          /\ UNCHANGED releases
       \/ /\ Fetch("sitemap", FALSE)
          /\ \E t \in {"HTTPError", "ConnectionError"} : Raise(t, "sitemap")
          /\ UNCHANGED releases
    /\ UNCHANGED <<env, clock, ids, feed_locals, filter_locals, run_locals>>

\* recent = filter_recent_releases(releases, ids, window_hours=window_hours)
FilterReleases ==
    /\ pc = "pr_filter"
    /\ filter_now' = clock
    /\ recent' = filter_recent_releases(releases, ids, window_hours, clock)
    /\ pc' = "pr_return"
    /\ UNCHANGED <<env, clock, fetched, sitemap_locals, feed_locals, run_locals,
                   exc, status>>

\* now = datetime.now(timezone.utc); payload = {...}; return payload
ReturnReleases ==
    /\ pc = "pr_return"
    /\ pr_data' = [checked_at |-> IsoFormat(clock),
                   window_hours |-> window_hours,
                   target_ids |-> ids,
                   count |-> Len(recent),
                   items |-> recent]
    /\ ids' = <<>>
    /\ releases' = <<>>
    /\ filter_now' = 0
    /\ recent' = <<>>
    /\ pc' = IF entry = RunEntry THEN "note_load" ELSE "done"
    /\ UNCHANGED <<env, clock, fetched, feed_locals, sheet_rows, name_index,
                   note_data, pr_entries, note_entries, posted, summary,
                   exc, status>>

\* ------------------------------------------------- check_notes, check_x

\* note_ids = load_note_ids(); all_articles = []
LoadNoteIds ==
    /\ pc = "note_load"
    /\ entry # "check_x"
    /\ \E lines \in SeqsUpTo(NoteIdLines, MaxIdLines) :
           note_ids' = load_note_ids(lines)
    /\ idx' = 1
    /\ pc' = "note_fetch"
    /\ UNCHANGED <<env, clock, fetched, sitemap_locals, rss_log, all_articles,
                   filter_locals, run_locals, exc, status>>

\* x_ids = load_x_ids(): the x_id list of the sheet data, which
\* load_spreadsheet_data reads from its cache or fetches; a failed fetch
\* leaves check_x.
LoadXIds ==
    /\ pc = "note_load"
    /\ entry = "check_x"
    /\ \/ /\ \E rows \in Sheets : note_ids' = parse_ids(rows).x_id
          /\ idx' = 1
          /\ pc' = "note_fetch"
          /\ UNCHANGED <<fetched, exc, status>>
       \/ /\ Fetch("sheet", FALSE)
          /\ \E t \in {"HTTPError", "ConnectionError"} : Raise(t, "sheet")
          /\ UNCHANGED <<note_ids, idx>>
    /\ UNCHANGED <<env, clock, sitemap_locals, rss_log, all_articles,
                   filter_locals, run_locals>>

\* A loop without the try: the exception leaves check_notes.
RssFailedPropagates(t) ==
    /\ Raise(t, "rss")
    /\ UNCHANGED <<idx, rss_log>>

\* except Exception: continue
RssFailed(t) ==
    /\ idx' = idx + 1
    /\ rss_log' = Append(rss_log, [note_id |-> note_ids[idx], raised |-> TRUE,
                                   xml |-> Malformed])
    /\ UNCHANGED <<pc, exc, status>>

\* One pass of the for loop: fetch_rss(note_id), then
\* all_articles.extend(parse_rss(xml_bytes, note_id)).
FetchRss ==
    /\ pc = "note_fetch"
    /\ idx <= Len(note_ids)
    /\ \/ /\ Fetch("feed", TRUE)
          /\ \E xml \in FeedDocs(entry, note_ids[idx]) :
                 /\ all_articles' = all_articles \o parse_rss(xml, note_ids[idx])
                 /\ rss_log' = Append(rss_log, [note_id |-> note_ids[idx],
                                                raised |-> FALSE, xml |-> xml])
          /\ idx' = idx + 1
          /\ UNCHANGED <<pc, exc, status>>
       \/ /\ Fetch("feed", FALSE)
          /\ \E t \in {"HTTPError", "ConnectionError"} : RssFailed(t)
          /\ UNCHANGED all_articles
    /\ UNCHANGED <<env, clock, sitemap_locals, note_ids, filter_locals,
                   run_locals>>

\* recent = filter_recent(all_articles, window_hours=window_hours)
FilterNotes ==
    /\ FeedLoopOver
    /\ filter_now' = clock
    /\ recent' = filter_recent(all_articles, window_hours, clock)
    /\ pc' = "note_return"
    /\ UNCHANGED <<env, clock, fetched, sitemap_locals, feed_locals, run_locals,
                   exc, status>>

\* now = datetime.now(timezone.utc); payload = {...}; return payload
ReturnNotes ==
    /\ pc = "note_return"
    /\ note_data' = [checked_at |-> IsoFormat(clock),
                     window_hours |-> window_hours,
                     target_ids |-> note_ids,
                     count |-> Len(recent),
                     items |-> recent]
    /\ note_ids' = <<>>
    /\ idx' = 0
    /\ rss_log' = <<>>
    /\ all_articles' = <<>>
    /\ filter_now' = 0
    /\ recent' = <<>>
    /\ pc' = IF entry = RunEntry THEN "entries" ELSE "done"
    /\ UNCHANGED <<env, clock, fetched, sitemap_locals, sheet_rows, name_index,
                   pr_data, pr_entries, note_entries, posted, summary,
                   exc, status>>

\* ------------------------------------------- run_notification, build_response

\* sheet_data = load_spreadsheet_data(force_refresh=True, ...);
\* name_index = _build_name_index(sheet_data)
LoadSheet ==
    /\ pc = "start"
    /\ \/ /\ Fetch("sheet", TRUE)
          /\ \E rows \in {SheetRows} :
                 /\ sheet_rows' = rows
                 /\ name_index' = build_name_index(parse_ids(rows))
          /\ pc' = "pr_load"
          /\ UNCHANGED <<exc, status>>
       \/ /\ Fetch("sheet", FALSE)
          /\ \E t \in {"HTTPError", "ConnectionError"} : Raise(t, "sheet")
          /\ UNCHANGED <<sheet_rows, name_index>>
    /\ UNCHANGED <<env, clock, sitemap_locals, feed_locals, filter_locals,
                   pr_data, note_data, pr_entries, note_entries, posted,
                   summary>>

\* `if r.get("url")`
HasUrl(item) == item.url.site # ""

\* The pr_entries comprehension: (url, name_index["pr"].get(company_id)) of
\* every release with a url.
RECURSIVE PrEntries(_, _)
PrEntries(items, index) ==
    IF items = <<>> THEN <<>>
    ELSE IF ~HasUrl(Head(items)) THEN PrEntries(Tail(items), index)
    ELSE <<[url |-> Head(items).url,
            name |-> Get(index.pr, Head(items).company_id)]>>
         \o PrEntries(Tail(items), index)

\* The note_entries comprehension.
RECURSIVE NoteEntries(_, _)
NoteEntries(items, index) ==
    IF items = <<>> THEN <<>>
    ELSE IF ~HasUrl(Head(items)) THEN NoteEntries(Tail(items), index)
    ELSE <<[url |-> Head(items).url,
            name |-> Get(index.note, Head(items).note_id)]>>
         \o NoteEntries(Tail(items), index)

BuildEntries ==
    /\ pc = "entries"
    /\ pr_entries' = PrEntries(pr_data.items, name_index)
    /\ note_entries' = NoteEntries(note_data.items, name_index)
    /\ pc' = "send"
    /\ UNCHANGED <<env, clock, fetched, sitemap_locals, feed_locals,
                   filter_locals, sheet_rows, name_index, pr_data, note_data,
                   posted, summary, exc, status>>

\* A send_with_preview whose preview fetch lets its exception through.
SendWithPreviewRaising(e) ==
    /\ \E page \in Pages \cup {NoPreview} :
         LET msg == PreviewMessage(e.url, e.name, page)
         IN  /\ Fetch("preview", page # NoPreview)
             /\ IF page = NoPreview
                THEN Raise("HTTPError", "preview") /\ UNCHANGED posted
                ELSE IF ~webhook
                THEN Raise("RuntimeError", "config") /\ UNCHANGED posted
                ELSE /\ posted' = Append(posted, msg)
                     /\ \/ UNCHANGED <<pc, exc, status>>
                        \/ \E t \in {"HTTPError", "ConnectionError"} :
                               Raise(t, "slack")
    /\ UNCHANGED <<env, clock, sitemap_locals, feed_locals, filter_locals,
                   sheet_rows, name_index, pr_data, note_data, pr_entries,
                   note_entries, summary>>

\* send_with_preview(url, name=name): fetch_preview never raises; send_to_slack
\* raises RuntimeError without a webhook URL, and whatever requests.post and
\* raise_for_status raise.
SendWithPreview(e) ==
    /\ \E page \in Pages \cup {NoPreview} :
         LET msg == PreviewMessage(e.url, e.name, page)
         IN  /\ Fetch("preview", page # NoPreview)
             /\ IF ~webhook
                THEN Raise("RuntimeError", "config") /\ UNCHANGED posted
                ELSE /\ posted' = Append(posted, msg)
                     /\ \/ UNCHANGED <<pc, exc, status>>
                        \/ \E t \in {"HTTPError", "ConnectionError"} :
                               Raise(t, "slack")
    /\ UNCHANGED <<env, clock, sitemap_locals, feed_locals, filter_locals,
                   sheet_rows, name_index, pr_data, note_data, pr_entries,
                   note_entries, summary>>

\* for url, name in pr_entries: responses.append(send_with_preview(...))
SendPr ==
    /\ pc = "send"
    /\ Len(posted) < Len(pr_entries)
    /\ SendWithPreview(pr_entries[Len(posted) + 1])

\* for url, name in note_entries: responses.append(send_with_preview(...))
SendNote ==
    /\ pc = "send"
    /\ Len(posted) >= Len(pr_entries)
    /\ Len(posted) < Len(pr_entries) + Len(note_entries)
    /\ SendWithPreview(note_entries[Len(posted) - Len(pr_entries) + 1])

\* A run that posts a notice when it found nothing new.
SummarizeWithNotice ==
    /\ pc = "send"
    /\ Len(posted) = Len(pr_entries) + Len(note_entries)
    /\ posted' = IF posted = <<>> /\ webhook
                 THEN <<[label_text |-> <<"update">>, url |-> NoteUrl(<<>>, 0),
                         title |-> <<"nothing new">>, description |-> <<>>,
                         image |-> <<>>]>>
                 ELSE posted
    /\ summary' = [pr_count |-> Len(pr_entries),
                   note_count |-> Len(note_entries),
                   messages_sent |-> Len(posted'),
                   pr_ids |-> pr_data.target_ids,
                   note_ids |-> note_data.target_ids]
    /\ status' = 200
    /\ pc' = "done"
    /\ UNCHANGED <<env, clock, fetched, sitemap_locals, feed_locals,
                   filter_locals, sheet_rows, name_index, pr_data, note_data,
                   pr_entries, note_entries, exc>>

\* # When nothing new, don't post anything.
\* summary = {...}; return summary; build_response: status_code = 200
Summarize ==
    /\ pc = "send"
    /\ Len(posted) = Len(pr_entries) + Len(note_entries)
    /\ summary' = [pr_count |-> Len(pr_entries),
                   note_count |-> Len(note_entries),
                   messages_sent |-> Len(posted),
                   pr_ids |-> pr_data.target_ids,
                   note_ids |-> note_data.target_ids]
    /\ status' = 200
    /\ pc' = "done"
    /\ UNCHANGED <<env, clock, fetched, sitemap_locals, feed_locals,
                   filter_locals, sheet_rows, name_index, pr_data, note_data,
                   pr_entries, note_entries, posted, exc>>

\* -------------------------------------------- functions called on their own

\* ids = load_prtimes_ids(), the file holding the lines of arg
CallLoadPrtimesIds ==
    /\ pc = "call"
    /\ entry = "load_prtimes_ids"
    /\ ids' = load_prtimes_ids(arg)
    /\ pc' = "returned"
    /\ UNCHANGED <<env, clock, fetched, releases, feed_locals, filter_locals,
                   run_locals, exc, status>>

\* releases = parse_sitemap(xml_bytes)
CallParseSitemap ==
    /\ pc = "call"
    /\ entry = "parse_sitemap"
    /\ releases' = parse_sitemap(arg)
    /\ pc' = "returned"
    /\ UNCHANGED <<env, clock, fetched, ids, feed_locals, filter_locals,
                   run_locals, exc, status>>

\* parse_rss(xml_bytes, note_id), for the account a
CallParseRss ==
    /\ pc = "call"
    /\ entry = "parse_rss"
    /\ all_articles' = parse_rss(arg, <<"a">>)
    /\ pc' = "returned"
    /\ UNCHANGED <<env, clock, fetched, sitemap_locals, note_ids, idx, rss_log,
                   filter_locals, run_locals, exc, status>>

\* name_index = _build_name_index(sheet_data)
CallBuildNameIndex ==
    /\ pc = "call"
    /\ entry = "build_name_index"
    /\ name_index' = build_name_index(arg)
    /\ pc' = "returned"
    /\ UNCHANGED <<env, clock, fetched, sitemap_locals, feed_locals,
                   filter_locals, sheet_rows, pr_data, note_data, pr_entries,
                   note_entries, posted, summary, exc, status>>

\* ---------------------------------------------------------- specifications

\* build_response(): one whole run.
Init == InitFor({RunEntry})

Next ==
    \/ Tick
    \/ LoadSheet
    \/ LoadPrtimesIds
    \/ FetchSitemap
    \/ FilterReleases
    \/ ReturnReleases
    \/ LoadNoteIds
    \/ FetchRss
    \/ FilterNotes
    \/ ReturnNotes
    \/ BuildEntries
    \/ SendPr
    \/ SendNote
    \/ Summarize

Spec == Init /\ [][Next]_vars

\* check_releases(), check_notes() or check_x() called on its own.
InitCheck == InitFor(CheckEntries)

NextCheck ==
    \/ Tick
    \/ LoadPrtimesIds
    \/ FetchSitemap
    \/ FilterReleases
    \/ ReturnReleases
    \/ LoadNoteIds
    \/ LoadXIds
    \/ FetchRss
    \/ FilterNotes
    \/ ReturnNotes

SpecCheck == InitCheck /\ [][NextCheck]_vars

\* load_prtimes_ids, parse_sitemap, parse_rss or _build_name_index called on
\* its own.
InitParse == InitFor(ParseEntries)

NextParse ==
    \/ CallLoadPrtimesIds
    \/ CallParseSitemap
    \/ CallParseRss
    \/ CallBuildNameIndex

SpecParse == InitParse /\ [][NextParse]_vars

\* ------------------------------------------------------------------ claims

\* The filter has run and its caller has not yet returned: its input, the
\* clock reading it took and its result are all in scope.
SitemapFiltered == pc = "pr_return"
FeedFiltered == pc = "note_return"

\* How long before the filter's clock reading an item was published.
Age(item) == filter_now - (item.published_at.wall - item.published_at.off)

WindowTicks == window_hours * TicksPerHour

TargetSet == {ids[i] : i \in DOMAIN ids}

\* The item is in the filter's result: same link, same instant.
Returned(item) ==
    \E j \in DOMAIN recent :
        /\ recent[j].url = item.url
        /\ IsoInstant(recent[j].published_at) = filter_now - Age(item)

\* C1: an item published h before the filter's clock reading is in the
\* filter's result iff h <= window_hours (and, for the sitemap filter, its
\* company is a target); the item at exactly now - window_hours is in.
C1_WindowCorrect ==
    /\ SitemapFiltered =>
         \A i \in DOMAIN releases :
             Returned(releases[i]) <=>
                 (Age(releases[i]) <= WindowTicks
                  /\ releases[i].company_id \in TargetSet)
    /\ FeedFiltered =>
         \A i \in DOMAIN all_articles :
             Returned(all_articles[i]) <=> Age(all_articles[i]) <= WindowTicks

\* A sitemap filter call that met a targeted item exactly at the start of
\* the window, which it kept, and a targeted item one tick older, which it
\* dropped.
C1_Witness ==
    /\ SitemapFiltered
    /\ \E i, k \in DOMAIN releases :
          /\ Age(releases[i]) = WindowTicks
          /\ releases[i].company_id \in TargetSet
          /\ Returned(releases[i])
          /\ Age(releases[k]) = WindowTicks + 1
          /\ releases[k].company_id \in TargetSet
          /\ ~Returned(releases[k])

\* C2: no item of an account outside the target IDs is in the batch
\* check_releases or check_notes returns.
C2_OnlyTargets ==
    /\ SitemapFiltered =>
         \A j \in DOMAIN recent : recent[j].company_id \in TargetSet
    /\ \A j \in DOMAIN pr_data.items :
         pr_data.items[j].company_id
             \in {pr_data.target_ids[i] : i \in DOMAIN pr_data.target_ids}
    /\ FeedFiltered =>
         \A j \in DOMAIN recent :
             recent[j].note_id \in {note_ids[i] : i \in DOMAIN note_ids}
    /\ \A j \in DOMAIN note_data.items :
         note_data.items[j].note_id
             \in {note_data.target_ids[i] : i \in DOMAIN note_data.target_ids}

\* check_releases met, in the window, a release of a company that is no
\* target after one of a company that is, and its batch holds one release.
C2_Witness ==
    /\ SitemapFiltered
    /\ Len(releases) = 2
    /\ releases[1].company_id \in TargetSet
    /\ releases[2].company_id \notin TargetSet
    /\ Age(releases[1]) <= WindowTicks
    /\ Age(releases[2]) <= WindowTicks
    /\ Len(recent) = 1

\* The inputs a filter keeps, in input order.
KeptInput ==
    IF SitemapFiltered
    THEN SelectSeq(releases,
                   LAMBDA r : Age(r) <= WindowTicks /\ r.company_id \in TargetSet)
    ELSE SelectSeq(all_articles, LAMBDA a : Age(a) <= WindowTicks)

Urls(items) == [i \in DOMAIN items |-> items[i].url]

\* C3: a filter's result is non-increasing in published_at, and the items
\* published at one instant stand in their input order; with C1 this fixes
\* the result for a given input and clock reading.
C3_StableDescending ==
    (SitemapFiltered \/ FeedFiltered) =>
        /\ \A j, k \in DOMAIN recent :
               j < k => IsoInstant(recent[j].published_at)
                            >= IsoInstant(recent[k].published_at)
        /\ \A t \in {filter_now - Age(KeptInput[i]) : i \in DOMAIN KeptInput} :
               Urls(SelectSeq(recent, LAMBDA x : IsoInstant(x.published_at) = t))
                   = Urls(SelectSeq(KeptInput, LAMBDA y : filter_now - Age(y) = t))
        /\ Len(recent) = Len(KeptInput)

\* A sitemap filter call that kept two releases published at the same
\* instant.
C3_Witness ==
    /\ SitemapFiltered
    /\ Len(recent) = 2
    /\ recent[1].published_at = recent[2].published_at
    /\ recent[1].url # recent[2].url

\* The positions of note_ids whose fetch raised.
FailedFetches == {i \in DOMAIN rss_log : rss_log[i].raised}

\* The items the answered fetches brought that are inside the window of the
\* filter's clock reading, as <<position in note_ids, position in the feed>>.
InWindowFetched ==
    {p \in UNION {{<<i, k>> : k \in DOMAIN rss_log[i].xml.items} :
                     i \in DOMAIN rss_log \ FailedFetches} :
        filter_now - AsUtc(rss_log[p[1]].xml.items[p[2]].pub.dt) <= WindowTicks}

\* C4: a fetch that raises for exactly one of the N accounts does not leave
\* check_notes / check_x, and the batch holds exactly the in-window items of
\* the other N - 1 accounts.
C4_OneAccountFails ==
    /\ exc.origin # "rss"
    /\ (FeedFiltered /\ Cardinality(FailedFetches) = 1) =>
          /\ \A p \in InWindowFetched :
                \E j \in DOMAIN recent :
                    /\ recent[j].note_id = note_ids[p[1]]
                    /\ recent[j].url = rss_log[p[1]].xml.items[p[2]].link.url
          /\ \A j \in DOMAIN recent :
                \E p \in InWindowFetched :
                    /\ recent[j].note_id = note_ids[p[1]]
                    /\ recent[j].url = rss_log[p[1]].xml.items[p[2]].link.url
          /\ Len(recent) = Cardinality(InWindowFetched)

\* The fetch for the first of two accounts raised, and the batch holds the
\* item of the second.
C4_Witness ==
    /\ FeedFiltered
    /\ Len(note_ids) = 2
    /\ FailedFetches = {1}
    /\ Len(recent) = 1
    /\ recent[1].note_id = note_ids[2]

\* A request to src that failed.
Failed(src) == [src |-> src, ok |-> FALSE] \in fetched

Finished == pc = "done" /\ exc = NoExc

\* C5: a failed fetch of the sitemap does not end the run: the feed accounts
\* are still processed and the run returns its summary, with the sitemap
\* counted as zero.
C5_SitemapFailureIsolated ==
    Failed("sitemap") =>
        /\ exc.origin # "sitemap"
        /\ pc = "done" => note_data # NoData
        /\ Finished => status = 200 /\ summary.pr_count = 0

\* C6: status 502 is returned only when a send to the sink failed, never
\* for an HTTP error from the sitemap or the sheet; status 200 only when
\* the run completed with every message delivered.
C6_DeliveryStatusDistinct ==
    /\ status = 502 => exc.origin = "slack"
    /\ status = 200 =>
          /\ exc = NoExc
          /\ Len(posted) = pr_data.count + note_data.count

\* C7: without SLACK_WEBHOOK_URL the run fails before any fetch is issued,
\* and never ends reporting success.
C7_FailFastWithoutWebhook ==
    ~webhook => fetched = {} /\ status # 200

\* The links of the two batches of a run.
BatchUrls ==
    {pr_data.items[i].url : i \in DOMAIN pr_data.items}
        \cup {note_data.items[i].url : i \in DOMAIN note_data.items}

Posts(url) == {i \in DOMAIN posted : posted[i].url = url}

\* C8: in a run that completes, each in-window item, identified by its
\* URL, is sent exactly once, and messages_sent = pr_count + note_count.
C8_EachItemSentOnce ==
    (Finished /\ status = 200) =>
        /\ \A u \in BatchUrls : Cardinality(Posts(u)) = 1
        /\ \A i \in DOMAIN posted : posted[i].url \in BatchUrls
        /\ summary.messages_sent = summary.pr_count + summary.note_count

\* C9: when both batches are empty the run sends nothing to the sink and
\* reports messages_sent = 0; no message is ever sent without a body.
C9_NothingNewNothingSent ==
    /\ (pr_data.count = 0 /\ note_data.count = 0) =>
          /\ posted = <<>>
          /\ \A f \in fetched : f.src # "preview"
          /\ Finished => summary.messages_sent = 0
    /\ \A i \in DOMAIN posted :
          posted[i].label_text # <<>> /\ posted[i].title # <<>>

\* A run that watched a company and an account, found nothing new and
\* completed.
C9_Witness ==
    /\ Finished
    /\ status = 200
    /\ webhook
    /\ pr_data.target_ids # <<>>
    /\ note_data.target_ids # <<>>
    /\ pr_data.count = 0
    /\ note_data.count = 0
    /\ [src |-> "feed", ok |-> TRUE] \in fetched
    /\ summary.messages_sent = 0

\* The account a posted link belongs to, as the pipeline writes its ID.
AccountId(url) ==
    IF url.site = "prtimes.jp" THEN NormalizeId(url.owner) ELSE url.owner

\* The names the sheet's rows give that account.
SheetNames(url) ==
    {sheet_rows[i].name : i \in
        {r \in DOMAIN sheet_rows :
            IF url.site = "prtimes.jp"
            THEN /\ ~is_missing(sheet_rows[r].prtimes_id)
                 /\ NormalizeId(sheet_rows[r].prtimes_id) = AccountId(url)
            ELSE /\ ~is_missing(sheet_rows[r].note_id)
                 /\ normalize_note_id(sheet_rows[r].note_id) = AccountId(url)}}

\* C10: every message is labelled with the name the sheet gives the item's
\* account, and with the account's ID when the sheet gives none.
C10_LabelledWithName ==
    \A i \in DOMAIN posted :
        /\ Len(posted[i].label_text) = 3
        /\ IF SheetNames(posted[i].url) # {}
           THEN posted[i].label_text[3] \in SheetNames(posted[i].url)
           ELSE posted[i].label_text[3] = AccountId(posted[i].url)

\* The items behind the messages of a run, in the order of the sends.
SentItems ==
    SelectSeq(pr_data.items, HasUrl) \o SelectSeq(note_data.items, HasUrl)

\* C11: the messages of a run are sent newest first across both sources:
\* of two messages of one run, the one sent earlier is of an item whose
\* published_at is not smaller than that of the one sent later.
C11_SentNewestFirst ==
    \A i, j \in DOMAIN posted :
        i < j => ~StrLess(SentItems[i].published_at, SentItems[j].published_at)

\* A function called on its own has returned.
Called(f) == entry = f /\ pc = "returned"

\* y is x without its leading zeros, and "0" when x is zeros only.
IsCanonOf(y, x) ==
    /\ y # <<>>
    /\ y = <<"0">> \/ Head(y) # "0"
    /\ \E k \in 0..Len(x) :
          /\ \A i \in 1..k : x[i] = "0"
          /\ \/ y = SubSeq(x, k + 1, Len(x))
             \/ k = Len(x) /\ y = <<"0">>

\* The target lists under which a release of company x is to be found.
SpellingsOf(x) == {x, <<"0">> \o x, NormalizeId(x)}

\* C12: stripping the leading zeros of a numeric ID never yields the empty
\* text and is idempotent ("42" -> "42", "0042" -> "42", "0000" -> "0"); the
\* target IDs, the sitemap items' IDs and the name index's keys are all
\* stripped that way, so a release matches its company's target however
\* the two are written.
C12_NormalizedAlike ==
    /\ NormalizeId(<<"4", "2">>) = <<"4", "2">>
    /\ NormalizeId(<<"0", "0", "4", "2">>) = <<"4", "2">>
    /\ NormalizeId(<<"0", "0", "0", "0">>) = <<"0">>
    /\ Called("load_prtimes_ids") =>
          /\ Len(ids) = Len(arg)
          /\ \A i \in DOMAIN ids :
                IsCanonOf(ids[i], arg[i]) /\ NormalizeId(ids[i]) = ids[i]
    /\ Called("parse_sitemap") =>
          \A i \in DOMAIN releases :
              LET r == releases[i]
              IN  /\ IsCanonOf(r.company_id, r.url.owner)
                  /\ NormalizeId(r.company_id) = r.company_id
                  /\ \A t \in SpellingsOf(r.url.owner) :
                        filter_recent_releases(<<r>>, load_prtimes_ids(<<t>>),
                                               1, AsUtc(r.published_at)) # <<>>
    /\ Called("build_name_index") =>
          \A i \in DOMAIN arg.by_name :
              \E k \in DOMAIN name_index.pr :
                  /\ IsCanonOf(k, arg.by_name[i].ids.prtimes_id)
                  /\ NormalizeId(k) = k
                  /\ name_index.pr[k] = arg.by_name[i].name

\* parse_sitemap has read a release of company "0007" as one of company "7".
C12_Witness ==
    /\ Called("parse_sitemap")
    /\ Len(releases) = 1
    /\ releases[1].url.owner = <<"0", "0", "0", "7">>
    /\ releases[1].company_id = <<"7">>
    /\ filter_recent_releases(releases, load_prtimes_ids(<<<<"7">>>>), 1, Clock0) # <<>>

\* C13: with an empty identifier list check_releases and check_notes raise
\* nothing, whatever the remote sources answer, and return an empty batch.
C13_EmptyListEmptyBatch ==
    /\ (entry = "check_releases" /\ ids = <<>> /\ pr_data.target_ids = <<>>) =>
          /\ exc = NoExc
          /\ pc = "pr_return" => recent = <<>>
          /\ pc = "done" => pr_data.count = 0 /\ pr_data.items = <<>>
    /\ (entry = "check_notes" /\ note_ids = <<>> /\ note_data.target_ids = <<>>) =>
          /\ exc = NoExc
          /\ pc = "note_return" => recent = <<>>
          /\ pc = "done" => note_data.count = 0 /\ note_data.items = <<>>

\* The message was built without a preview: the URL stands for the title.
Bare(msg) ==
    msg.title = <<"url">> /\ msg.description = <<>> /\ msg.image = <<>>

\* C14: a preview page that cannot be fetched fails nothing: no exception
\* comes of it, the item's message is sent all the same, once, with the URL
\* for its title and no description or image, and the items after it are
\* sent too.
C14_PreviewFailureTolerated ==
    /\ exc.origin # "preview"
    /\ (webhook /\ Failed("preview")) => \E i \in DOMAIN posted : Bare(posted[i])
    /\ \A i \in DOMAIN posted :
          /\ posted[i].url = SentItems[i].url
          /\ posted[i].title # <<>>
          /\ posted[i].title = <<"url">> => Bare(posted[i])
    /\ (Finished /\ status = 200) => Len(posted) = Len(SentItems)

\* A run of two items that completed: the first item's preview failed, its
\* message went out bare, and the second item's message followed it.
C14_Witness ==
    /\ Finished
    /\ status = 200
    /\ Failed("preview")
    /\ Len(posted) = 2
    /\ Bare(posted[1])
    /\ posted[2].title = <<"T">>
    /\ summary.messages_sent = 2

\* Every item of the batch was published no earlier than window_hours before
\* the batch's checked_at.
WithinCheckedWindow(data) ==
    \A i \in DOMAIN data.items :
        IsoInstant(data.items[i].published_at)
            >= IsoInstant(data.checked_at) - data.window_hours * TicksPerHour

\* C15: a batch's checked_at is the clock reading its window was taken
\* from: no item of a returned batch is older than checked_at - window_hours,
\* and the two batches of one run carry the same checked_at.
C15_CheckedAtIsCutoffNow ==
    /\ WithinCheckedWindow(pr_data)
    /\ WithinCheckedWindow(note_data)
    /\ (pr_data # NoData /\ note_data # NoData) =>
          pr_data.checked_at = note_data.checked_at

\* The item has a link and a publish time that carries a tzinfo and is in UTC.
WellFormed(item) ==
    /\ HasUrl(item)
    /\ item.published_at.aware
    /\ item.published_at.off = 0

\* How many entries of a document have a usable link and a publish time the
\* parser can read.
Usable(entries, link_kind, date_kind) ==
    Cardinality({i \in DOMAIN entries :
        IF link_kind = "release"
        THEN entries[i].loc.kind = link_kind /\ entries[i].pub.kind = date_kind
        ELSE entries[i].link.kind = link_kind /\ entries[i].pub.kind = date_kind})

\* C16: every item parse_sitemap or parse_rss returns has a link and a
\* timezone-aware publish time in UTC; an entry without a usable link or
\* publish time is left out, and nothing is raised.
C16_ParsedItemsWellFormed ==
    /\ Called("parse_sitemap") =>
          /\ exc = NoExc
          /\ Len(releases) = Usable(arg, "release", "iso")
          /\ \A i \in DOMAIN releases : WellFormed(releases[i])
    /\ Called("parse_rss") =>
          /\ exc = NoExc
          /\ Len(all_articles) = Usable(arg.items, "link", "date")
          /\ \A i \in DOMAIN all_articles : WellFormed(all_articles[i])

====
